---------------------------- MODULE Spec2Model ----------------------------
(***************************************************************************)
(* Medical Bill Manager (Streamlit): the login gate of Home.py and the     *)
(* bill pipeline of medical_bill_manager.py.                               *)
(*                                                                         *)
(* Streamlit re-executes a page's script from top to bottom on every user  *)
(* interaction, and one interaction delivers one widget event.  An action  *)
(* of this model is therefore one whole script run carrying one event,     *)
(* followed, where the handler calls st.rerun(), by the event-free run it  *)
(* triggers.                                                               *)
(*                                                                         *)
(* Representation of Python values                                         *)
(*   text that the code only stores or compares for equality is a TLA+     *)
(*   string; text that the code orders or parses (dates in string form)    *)
(*   is a sequence of character codes;                                     *)
(*   a date is <<year, month, day>>; an amount is a number of cents;       *)
(*   values held in st.session_state.form_data and in the extraction       *)
(*   result carry their Python type as a tag (PyStr, PyFloat, ...).        *)
(***************************************************************************)
EXTENDS Integers, Sequences, FiniteSets, TLC

VARIABLES
    \* ---- Home.py ----
    logged_in,      \* st.session_state.logged_in
    login_out,      \* what the last Home.py run did: event, credentials, messages
    \* ---- medical_bill_manager.py: store, cache, session ----
    dbDoctors,      \* rows of the hosted table 'doctors'
    dbBills,        \* rows of the hosted table 'bills', in insertion order
    cacheD,         \* st.cache_data entry of fetch_doctors()
    cacheB,         \* st.cache_data entry of fetch_bills()
    form_data,      \* st.session_state.form_data
    ui,             \* what the last script run did: event, store calls, messages, lists
    \* ---- medical_bill_manager.py: filter and export block ----
    bills,          \* the list fetch_bills() returned to the run
    start_date,     \* the "From" date input
    end_date,       \* the "To" date input
    report          \* outcome of the filter/export block of the last run

loginVars  == <<logged_in, login_out>>
appVars    == <<dbDoctors, dbBills, cacheD, cacheB, form_data, ui>>
reportVars == <<bills, start_date, end_date, report>>
vars       == <<logged_in, login_out, dbDoctors, dbBills, cacheD, cacheB,
                form_data, ui, bills, start_date, end_date, report>>

----------------------------------------------------------------------------
(* Bounds                                                                  *)

MaxBills == 1       \* rows the bills table may hold
MaxDoctors == 1     \* rows the doctors table may hold
MaxFetched == 2     \* length of a list handed to the filter and export block

----------------------------------------------------------------------------
(* Text as character codes, dates                                          *)

Hyphen == <<45>>

RECURSIVE Digits(_)
\* decimal digits of a natural number, as character codes
Digits(n) == IF n < 10 THEN <<48 + n>> ELSE Digits(n \div 10) \o <<48 + (n % 10)>>

RECURSIVE ZeroPad(_, _)
ZeroPad(s, w) == IF Len(s) >= w THEN s ELSE ZeroPad(<<48>> \o s, w)

\* a buggy serialisation: no zero padding of month and day
IsoStrUnpadded(d) ==
    Digits(d[1]) \o Hyphen \o Digits(d[2]) \o Hyphen \o Digits(d[3])

\* str(datetime.date): date.isoformat(), "%04d-%02d-%02d"
IsoStr(d) ==
    ZeroPad(Digits(d[1]), 4) \o Hyphen \o ZeroPad(Digits(d[2]), 2)
        \o Hyphen \o ZeroPad(Digits(d[3]), 2)

RECURSIVE StrLeq(_, _)
\* Python's <= on str: code point by code point, a proper prefix is smaller
StrLeq(a, b) ==
    IF a = <<>> THEN TRUE
    ELSE IF b = <<>> THEN FALSE
    ELSE IF Head(a) < Head(b) THEN TRUE
    ELSE IF Head(a) > Head(b) THEN FALSE
    ELSE StrLeq(Tail(a), Tail(b))

\* datetime.date's <=
DateLeq(a, b) ==
    \/ a[1] < b[1]
    \/ a[1] = b[1] /\ a[2] < b[2]
    \/ a[1] = b[1] /\ a[2] = b[2] /\ a[3] <= b[3]

IsLeap(y) == (y % 4 = 0 /\ y % 100 # 0) \/ y % 400 = 0

DaysInMonth(y, m) ==
    IF m = 2 THEN (IF IsLeap(y) THEN 29 ELSE 28)
    ELSE IF m \in {4, 6, 9, 11} THEN 30 ELSE 31

RECURSIVE ToNum(_)
ToNum(s) == IF s = <<>> THEN 0 ELSE 10 * ToNum(SubSeq(s, 1, Len(s) - 1)) + (s[Len(s)] - 48)

AllDigits(s) == s # <<>> /\ \A i \in 1..Len(s) : s[i] \in 48..57

RECURSIVE Split(_, _)
\* s.split(sep) for a one-character separator
Split(s, sep) ==
    IF \A i \in 1..Len(s) : s[i] # sep THEN <<s>>
    ELSE LET k == CHOOSE i \in 1..Len(s) :
                     s[i] = sep /\ \A j \in 1..(i - 1) : s[j] # sep
         IN  <<SubSeq(s, 1, k - 1)>> \o Split(SubSeq(s, k + 1, Len(s)), sep)

NoDate == <<0, 0, 0>>   \* an empty date input (None): falsy

\* the dates a user picks in the date inputs
D1 == <<2024, 2, 9>>
D2 == <<2024, 10, 1>>
D3 == <<2025, 1, 15>>
DateSet == {D1, D2, D3}
Today == D3             \* datetime.date.today()


----------------------------------------------------------------------------
(* Home.py: the credential gate                                            *)

\* what a user may type into the two text inputs of login_form
Usernames == {"", "AutoB4", "autob4", "AUTOB4", "AutoB4 ", " AutoB4", "AutoB",
              "P@ssw0rd", "admin", "root"}
Passwords == {"", "P@ssw0rd", "p@ssw0rd", "P@SSW0RD", "P@ssw0rd ", " P@ssw0rd",
              "P@ssw0r", "AutoB4", "password", "admin"}

\* a gate that accepts when either field matches
CredentialsMatchEither(username, password) ==
    username = "AutoB4" \/ password = "P@ssw0rd"

\* Home.py line 46
CredentialsMatch(username, password) ==
    username = "AutoB4" /\ password = "P@ssw0rd"

LoginInit ==
    /\ logged_in = FALSE
    /\ login_out = [event |-> "none", username |-> "", password |-> "", msgs |-> {}]

\* check_login(): the login form is rendered only while logged out; one
\* submission of it.  On a match the flag is set and st.rerun() shows the
\* dashboard; otherwise st.error and the form stays.
LoginSubmit(username, password) ==
    /\ ~logged_in
    /\ IF CredentialsMatch(username, password)
       THEN /\ logged_in' = TRUE
            /\ login_out' = [event |-> "login", username |-> username,
                             password |-> password, msgs |-> {}]
       ELSE /\ logged_in' = logged_in
            /\ login_out' = [event |-> "login", username |-> username,
                             password |-> password,
                             msgs |-> {"error: Incorrect username or password"}]
    /\ UNCHANGED <<appVars, reportVars>>

\* the Logout button is rendered only on the dashboard (check_login() true)
Logout ==
    /\ logged_in
    /\ logged_in' = FALSE
    /\ login_out' = [event |-> "logout", username |-> "", password |-> "", msgs |-> {}]
    /\ UNCHANGED <<appVars, reportVars>>

----------------------------------------------------------------------------
(* medical_bill_manager.py: rows, data frames                              *)

Vendor == "Acme"
BillNo == "B-7"
Amounts == {0, 4250}        \* cents; the number input has min_value 0.0

\* a row of the bills table as the store returns it
BillRow(id, vendor, no, date_str, amount, doctor) ==
    [id |-> id, vendor_name |-> vendor, bill_no |-> no, bill_date |-> date_str,
     bill_amount |-> amount, doctor_name |-> doctor]

\* pd.DataFrame(bills): rows labelled 0, 1, 2, ...
DataFrame(rows) == [i \in 1..Len(rows) |-> [index |-> i - 1, row |-> rows[i]]]

\* df.reset_index(drop=True)
ResetIndex(df) == [i \in 1..Len(df) |-> [index |-> i - 1, row |-> df[i].row]]

\* df.loc[mask]: the rows whose entry of the boolean series is true, labels
\* kept
Loc(df, mask) ==
    LET kept[n \in 0..Len(df)] ==
            IF n = 0 THEN <<>>
            ELSE IF mask[n] THEN Append(kept[n - 1], df[n]) ELSE kept[n - 1]
    IN  kept[Len(df)]

\* a mask that leaves out the bills dated on either end of the range
InRangeExclusive(row, s, e) ==
    /\ StrLeq(IsoStr(s), row.bill_date) /\ IsoStr(s) # row.bill_date
    /\ StrLeq(row.bill_date, IsoStr(e)) /\ IsoStr(e) # row.bill_date

\* line 288: both comparisons are on strings
InRange(row, s, e) == StrLeq(IsoStr(s), row.bill_date) /\ StrLeq(row.bill_date, IsoStr(e))

----------------------------------------------------------------------------
(* generate_pdf                                                            *)

HeaderRow == <<"S.No", "Vendor", "Bill No.", "Bill Date", "Amount", "Doctor">>

\* f"${amount:.2f}"
FormatAmount(cents) ==
    <<36>> \o Digits(cents \div 100) \o <<46>> \o ZeroPad(Digits(cents % 100), 2)

PdfRow(r) ==
    [s_no |-> r.index + 1, vendor |-> r.row.vendor_name, bill_no |-> r.row.bill_no,
     bill_date |-> r.row.bill_date, amount |-> FormatAmount(r.row.bill_amount),
     doctor |-> r.row.doctor_name]

\* line 87 calls st.print, and the streamlit module has no attribute `print`:
\* the first iteration of the row loop raises AttributeError
StHasPrint == FALSE

generate_pdf(dataframe) ==
    IF Len(dataframe) > 0 /\ ~StHasPrint
    THEN [raised |-> "AttributeError", header |-> <<>>, rows |-> <<>>]
    ELSE [raised |-> "", header |-> HeaderRow,
          rows |-> [i \in 1..Len(dataframe) |-> PdfRow(dataframe[i])]]

NoPdf == [raised |-> "", header |-> <<>>, rows |-> <<>>]

----------------------------------------------------------------------------
(* The filter and export block (lines 268-309)                             *)

RECURSIVE SeqsUpTo(_, _)
SeqsUpTo(S, n) ==
    IF n = 0 THEN {<<>>}
    ELSE LET shorter == SeqsUpTo(S, n - 1)
         IN  shorter \cup {Append(q, x) : q \in shorter, x \in S}

\* fetch_bills orders by bill_date descending
SortedDesc(rows) ==
    \A i \in 1..(Len(rows) - 1) : StrLeq(rows[i + 1].bill_date, rows[i].bill_date)

DistinctIds(rows) ==
    \A i, j \in 1..Len(rows) : i # j => rows[i].id # rows[j].id

\* the lists fetch_bills() can hand to a run
FetchedBillLists ==
    {q \in SeqsUpTo({BillRow(id, Vendor, BillNo, IsoStr(d), a, "") :
                        id \in 1..MaxFetched, d \in DateSet, a \in Amounts}, MaxFetched) :
        SortedDesc(q) /\ DistinctIds(q)}

NoReport ==
    [event |-> "none", msgs |-> {}, has_filtered |-> FALSE, filtered_df |-> <<>>,
     has_button |-> FALSE, generated |-> FALSE, pdf_data |-> NoPdf]

\* one run of lines 268-309 over `rows` with the date inputs s and e;
\* clicked: the run was triggered by the Generate PDF Report button
FilterBlock(rows, s, e, clicked, event) ==
    IF rows = <<>>
    THEN [NoReport EXCEPT !.event = event, !.msgs = {"info: No bills found"}]
    ELSE IF ~DateLeq(s, e)             \* start_date > end_date
    THEN [NoReport EXCEPT !.event = event,
                          !.msgs = {"error: Start date must be before end date"}]
    ELSE LET df          == DataFrame(rows)
             mask        == [i \in 1..Len(df) |-> InRange(df[i].row, s, e)]
             filtered_df == Loc(df, mask)
         IN  IF ~clicked
             THEN [NoReport EXCEPT !.event = event, !.has_filtered = TRUE,
                                   !.filtered_df = filtered_df, !.has_button = TRUE]
             ELSE IF filtered_df # <<>>
             THEN [NoReport EXCEPT !.event = event, !.has_filtered = TRUE,
                                   !.filtered_df = filtered_df, !.has_button = TRUE,
                                   !.generated = TRUE,
                                   !.pdf_data = generate_pdf(ResetIndex(filtered_df))]
             ELSE [NoReport EXCEPT !.event = event, !.has_filtered = TRUE,
                                   !.filtered_df = filtered_df, !.has_button = TRUE,
                                   !.msgs = {"warning: No bills in the selected date range"}]

ReportInit ==
    /\ bills \in FetchedBillLists
    /\ start_date \in DateSet
    /\ end_date \in DateSet
    /\ report = FilterBlock(bills, start_date, end_date, FALSE, "load")

\* the user changes the From / To inputs: a run with the new range
SetRange(s, e) ==
    /\ start_date' = s
    /\ end_date' = e
    /\ report' = FilterBlock(bills, s, e, FALSE, "range")
    /\ UNCHANGED <<bills, loginVars, appVars>>

\* the Generate PDF Report button exists only where the previous run drew it
ClickGenerate ==
    /\ report.has_button
    /\ report' = FilterBlock(bills, start_date, end_date, TRUE, "generate")
    /\ UNCHANGED <<bills, start_date, end_date, loginVars, appVars>>

----------------------------------------------------------------------------
(* Python values in form_data and in the extraction result                 *)

PyStr(s)   == <<"str", s>>
PyFloat(c) == <<"float", c>>     \* c: cents
PyInt(c)   == <<"int", c>>
PyDate(d)  == <<"date", d>>
PyNaN      == <<"nan">>          \* float('nan')
PyNone     == <<"None">>
Absent     == <<"absent">>       \* the key is not in the dict

\* dict.get(key, default) on the extraction result
Get(d, key, default) == IF d[key] = Absent THEN default ELSE d[key]

\* bool(x)
Truthy(x) ==
    IF x = PyNone THEN FALSE
    ELSE IF x[1] = "str" THEN x[2] # <<>>
    ELSE IF x[1] \in {"float", "int"} THEN x[2] # 0
    ELSE TRUE

\* float(x) for the numbers the extraction returns
float(x) == IF x[1] = "int" THEN PyFloat(x[2]) ELSE x

\* datetime.datetime.strptime(x, '%Y-%m-%d').date(): a date, or the name of
\* the exception raised (TypeError for a non-string argument)
strptime(x) ==
    IF x[1] # "str" THEN [raised |-> "TypeError", date |-> NoDate]
    ELSE LET parts == Split(x[2], 45)
             ok    == /\ Len(parts) = 3
                      /\ \A i \in 1..3 : AllDigits(parts[i])
                      /\ Len(parts[1]) = 4
                      /\ Len(parts[2]) \in 1..2
                      /\ Len(parts[3]) \in 1..2
                      /\ ToNum(parts[1]) >= 1
                      /\ ToNum(parts[2]) \in 1..12
                      /\ ToNum(parts[3]) \in 1..DaysInMonth(ToNum(parts[1]), ToNum(parts[2]))
         IN  IF ok
             THEN [raised |-> "",
                   date |-> <<ToNum(parts[1]), ToNum(parts[2]), ToNum(parts[3])>>]
             ELSE [raised |-> "ValueError", date |-> NoDate]

\* lines 192, 237, 256
FormDefaults ==
    [vendor_name |-> PyStr(""), bill_no |-> PyStr(""), bill_date |-> PyDate(Today),
     bill_amount |-> PyFloat(0), doctor_name |-> PyNone]

March1st == <<77, 97, 114, 99, 104, 32, 49, 115, 116>>     \* "March 1st"

\* what extract_bill_details_with_gemini can return as a dict: each key is
\* absent, null (pandas reads a null column as NaN) or a value
VendorOut == {Absent, PyNaN, PyStr("Acme Clinic")}
AmountOut == {Absent, PyNaN, PyInt(4200), PyFloat(4250)}
DateOut   == {Absent, PyNaN, PyStr(IsoStr(<<2024, 3, 1>>)), PyStr(March1st)}
Extractions ==
    {[vendorName |-> v, billAmount |-> a, billDate |-> d] :
        v \in VendorOut, a \in AmountOut, d \in DateOut}
EmptyDict == [vendorName |-> Absent, billAmount |-> Absent, billDate |-> Absent]

\* a merge that skips the keys the extraction did not return
MergeKeepingPrior(fd, d) ==
    LET parsed == strptime(d.billDate)
    IN  [fd EXCEPT !.vendor_name = IF d.vendorName \in {Absent, PyNaN} THEN @
                                   ELSE d.vendorName,
                   !.bill_amount = IF d.billAmount \in {Absent, PyNaN} THEN @
                                   ELSE float(d.billAmount),
                   !.bill_date   = IF parsed.raised = "" THEN PyDate(parsed.date) ELSE @]

\* a merge whose date step comes first and, when the date does not parse,
\* abandons the other fields
MergeAbortingOnBadDate(fd, d) ==
    LET bill_date_str == Get(d, "billDate", PyNone)
        parsed        == strptime(bill_date_str)
    IN  IF Truthy(bill_date_str) /\ parsed.raised # ""
        THEN fd
        ELSE [fd EXCEPT !.vendor_name = Get(d, "vendorName", PyStr("")),
                        !.bill_amount = float(Get(d, "billAmount", PyFloat(0))),
                        !.bill_date   = IF Truthy(bill_date_str)
                                        THEN PyDate(parsed.date) ELSE @]

\* lines 209-216: the new form_data
Merge(fd, d) ==
    LET bill_date_str == Get(d, "billDate", PyNone)
        parsed        == strptime(bill_date_str)
    IN  [fd EXCEPT !.vendor_name = Get(d, "vendorName", PyStr("")),
                   !.bill_amount = float(Get(d, "billAmount", PyFloat(0))),
                   !.bill_date   = IF Truthy(bill_date_str) /\ parsed.raised = ""
                                   THEN PyDate(parsed.date) ELSE @]

\* lines 211-216: the messages of the date step
MergeMsgs(d) ==
    LET bill_date_str == Get(d, "billDate", PyNone)
    IN  IF Truthy(bill_date_str) /\ strptime(bill_date_str).raised # ""
        THEN {"warning: Could not parse date from AI"} ELSE {}

----------------------------------------------------------------------------
(* The hosted store                                                        *)

DoctorNames == {"Dr A"}   \* what a user types into "Add a new doctor"

\* the id the store assigns to a new row: opaque to the app; here the
\* smallest positive number no row of the table uses
RECURSIVE FreshFrom(_, _)
FreshFrom(used, n) == IF n \in used THEN FreshFrom(used, n + 1) ELSE n
FreshId(rows) == FreshFrom({rows[i].id : i \in 1..Len(rows)}, 1)

\* table(...).insert(row).execute()
Insert(rows, row) == Append(rows, row)

\* table(...).delete().eq('id', id).execute()
Delete(rows, id) == SelectSeq(rows, LAMBDA r : r.id # id)

RECURSIVE InsertByDateDesc(_, _)
InsertByDateDesc(sorted, r) ==
    IF sorted = <<>> THEN <<r>>
    ELSE IF StrLeq(r.bill_date, Head(sorted).bill_date)
         THEN <<Head(sorted)>> \o InsertByDateDesc(Tail(sorted), r)
         ELSE <<r>> \o sorted

RECURSIVE OrderByDateDesc(_)
\* select('*').order('bill_date', desc=True): rows of equal date stay in
\* insertion order
OrderByDateDesc(rows) ==
    IF rows = <<>> THEN <<>>
    ELSE InsertByDateDesc(OrderByDateDesc(SubSeq(rows, 1, Len(rows) - 1)), rows[Len(rows)])

\* the doctor names of the model, in alphabetical order
NameOrder == <<"Dr A">>
NameRank(name) == CHOOSE i \in 1..Len(NameOrder) : NameOrder[i] = name

RECURSIVE InsertByName(_, _)
InsertByName(sorted, r) ==
    IF sorted = <<>> THEN <<r>>
    ELSE IF NameRank(Head(sorted).name) <= NameRank(r.name)
         THEN <<Head(sorted)>> \o InsertByName(Tail(sorted), r)
         ELSE <<r>> \o sorted

RECURSIVE OrderByName(_)
\* select('id, name').order('name')
OrderByName(rows) ==
    IF rows = <<>> THEN <<>>
    ELSE InsertByName(OrderByName(SubSeq(rows, 1, Len(rows) - 1)), rows[Len(rows)])

----------------------------------------------------------------------------
(* st.cache_data                                                           *)

\* an entry: hit - a value is memoized; val - the value; failed - the value
\* is the [] returned by the except branch (provenance, not read by the app)
Miss == [hit |-> FALSE, failed |-> FALSE, val |-> <<>>]

\* How a cached read goes:
\*   "cached"  - the entry is memoized and its TTL (300 s doctors, 60 s
\*               bills) has not elapsed: no query;
\*   "fetched" - no live entry, the query succeeds;
\*   "raised"  - no live entry, the query raises.
Reads(entry) == IF entry.hit THEN {"cached", "fetched", "raised"}
                ELSE {"fetched", "raised"}

\* fetch_doctors / fetch_bills under @st.cache_data: the entry after the
\* call.  A live entry is left as is; otherwise the body runs and whatever
\* it returns normally is memoized.  The body catches every exception of
\* the query and returns [], so that [] is memoized too.
CachedCall(entry, stored, rd) ==
    IF rd = "cached" THEN entry
    ELSE [hit |-> TRUE, failed |-> (rd = "raised"),
          val |-> IF rd = "raised" THEN <<>> ELSE stored]

\* the value the call returns
Returned(entry, stored, rd) ==
    IF rd = "cached" THEN entry.val ELSE IF rd = "raised" THEN <<>> ELSE stored

\* an invalidation that forgets to drop the entry
KeepEntry(entry) == entry

\* st.cache_data.clear(), on each entry
Cleared(entry) == Miss

----------------------------------------------------------------------------
(* medical_bill_manager.py: the script run                                 *)

NoSubmission ==
    [vendor_name |-> "", bill_no |-> "", bill_date |-> NoDate, bill_amount |-> 0,
     doctor_name |-> ""]

\* what an action did: the event handled, the messages it issued, the
\* write requests it sent, the two lists the last run holds, the values
\* submitted or extracted, and form_data as it was before
Out(event, msgs, calls, doctors, rows, submitted, extracted, before) ==
    [event |-> event, msgs |-> msgs, calls |-> calls, doctors |-> doctors,
     bills |-> rows, submitted |-> submitted, extracted |-> extracted,
     form_before |-> before]

\* a write request sent to the store, and whether it succeeded
Call(table, op, data, name, id, ok) ==
    [table |-> table, op |-> op, data |-> data, name |-> name, id |-> id, ok |-> ok]

\* lines 244-250
BillData(vendor, no, date, amount, doctor) ==
    [vendor_name |-> vendor, bill_no |-> no, bill_date |-> IsoStr(date),
     bill_amount |-> amount, doctor_name |-> doctor]

NoData ==
    [vendor_name |-> "", bill_no |-> "", bill_date |-> <<>>, bill_amount |-> 0,
     doctor_name |-> ""]

AppInit ==
    /\ dbDoctors = <<>>
    /\ dbBills = <<>>
    /\ cacheD = Miss
    /\ cacheB = Miss
    /\ form_data = FormDefaults
    /\ ui = Out("none", {}, <<>>, <<>>, <<>>, NoSubmission, EmptyDict, FormDefaults)

Names(doctors) == {doctors[i].name : i \in 1..Len(doctors)}

Range(q) == {q[i] : i \in 1..Len(q)}

\* A run without a handled event (first load, a widget changed): line 154
\* and line 266 read through the cache.
Render(rdD, rdB) ==
    /\ cacheD' = CachedCall(cacheD, OrderByName(dbDoctors), rdD)
    /\ cacheB' = CachedCall(cacheB, OrderByDateDesc(dbBills), rdB)
    /\ ui' = Out("render", {}, <<>>,
                 Returned(cacheD, OrderByName(dbDoctors), rdD),
                 Returned(cacheB, OrderByDateDesc(dbBills), rdB),
                 NoSubmission, EmptyDict, form_data)
    /\ UNCHANGED <<dbDoctors, dbBills, form_data, loginVars, reportVars>>

\* Sidebar, add_doctor_form (lines 157-169), then the rest of the run.
AddDoctor(new_doctor_name, rdD, failW, rdB) ==
    LET doctors == Returned(cacheD, OrderByName(dbDoctors), rdD)
        eD1     == CachedCall(cacheD, OrderByName(dbDoctors), rdD)
        attempt == new_doctor_name # "" /\ new_doctor_name \notin Names(doctors)
        ok      == attempt /\ ~failW
        eD2     == IF ok THEN Cleared(eD1) ELSE eD1
        eB2     == IF ok THEN Cleared(cacheB) ELSE cacheB
    IN  /\ ok => Len(dbDoctors) < MaxDoctors
        /\ failW => attempt             \* no insert is made otherwise
        /\ rdB \in Reads(eB2)
        /\ dbDoctors' = IF ok
                        THEN Insert(dbDoctors, [id |-> FreshId(dbDoctors),
                                                name |-> new_doctor_name])
                        ELSE dbDoctors
        /\ cacheD' = eD2
        /\ cacheB' = CachedCall(eB2, OrderByDateDesc(dbBills), rdB)
        /\ ui' = Out("add_doctor",
                     IF new_doctor_name = "" THEN {}
                     ELSE IF ~attempt THEN {"warning: This doctor already exists"}
                     ELSE IF ok THEN {"success: Added Dr."}
                     ELSE {"error: Failed to add doctor"},
                     IF attempt
                     THEN <<Call("doctors", "insert", NoData, new_doctor_name, 0, ok)>>
                     ELSE <<>>,
                     doctors,
                     Returned(eB2, OrderByDateDesc(dbBills), rdB),
                     NoSubmission, EmptyDict, form_data)
        /\ UNCHANGED <<dbBills, form_data, loginVars, reportVars>>

\* Sidebar, a doctor's delete button (lines 178-184).  The button clicked
\* was drawn by the previous run and is drawn again by this one.
\* On success: cache cleared, st.rerun(), and the new run reads both lists.
DeleteDoctor(doctor, rdD, failW, rdD2, rdB) ==
    LET doctors == Returned(cacheD, OrderByName(dbDoctors), rdD)
        eD1     == CachedCall(cacheD, OrderByName(dbDoctors), rdD)
        ok      == ~failW
        dbD2    == IF ok THEN Delete(dbDoctors, doctor.id) ELSE dbDoctors
        eD2     == IF ok THEN Cleared(eD1) ELSE eD1
        eB2     == IF ok THEN Cleared(cacheB) ELSE cacheB
    IN  /\ IF ok THEN rdD2 \in Reads(eD2) ELSE rdD2 = "cached"  \* no second run
        /\ rdB \in Reads(eB2)
        /\ doctor \in Range(ui.doctors)
        /\ doctor \in Range(doctors)
        /\ dbDoctors' = dbD2
        /\ cacheD' = CachedCall(eD2, OrderByName(dbD2), rdD2)
        /\ cacheB' = CachedCall(eB2, OrderByDateDesc(dbBills), rdB)
        /\ ui' = Out("delete_doctor",
                     IF ok THEN {} ELSE {"error: Failed to delete."},
                     <<Call("doctors", "delete", NoData, "", doctor.id, ok)>>,
                     Returned(eD2, OrderByName(dbD2), rdD2),
                     Returned(eB2, OrderByDateDesc(dbBills), rdB),
                     NoSubmission, EmptyDict, form_data)
        /\ UNCHANGED <<dbBills, form_data, loginVars, reportVars>>

\* "Scan & Extract Details" with a file uploaded (lines 203-218), where
\* extract_bill_details_with_gemini returns None (no API key, request
\* failed, response not parsed): st.error there, and the run goes on.
ScanFails(rdD, rdB) ==
    /\ cacheD' = CachedCall(cacheD, OrderByName(dbDoctors), rdD)
    /\ cacheB' = CachedCall(cacheB, OrderByDateDesc(dbBills), rdB)
    /\ ui' = Out("scan_failed", {"error: extraction failed"}, <<>>,
                 Returned(cacheD, OrderByName(dbDoctors), rdD),
                 Returned(cacheB, OrderByDateDesc(dbBills), rdB),
                 NoSubmission, EmptyDict, form_data)
    /\ UNCHANGED <<dbDoctors, dbBills, form_data, loginVars, reportVars>>

\* "Scan & Extract Details" where the extraction returns the dict
\* extracted_data.  An empty dict is falsy: nothing is merged.  Otherwise
\* the merge, st.success and st.rerun(); the run that follows finds the
\* doctors entry memoized by the first.
Scan(extracted_data, rdD, rdB) ==
    /\ form_data' = IF extracted_data # EmptyDict
                    THEN Merge(form_data, extracted_data) ELSE form_data
    /\ cacheD' = CachedCall(cacheD, OrderByName(dbDoctors), rdD)
    /\ cacheB' = CachedCall(cacheB, OrderByDateDesc(dbBills), rdB)
    /\ ui' = Out("scan",
                 IF extracted_data # EmptyDict
                 THEN MergeMsgs(extracted_data) \cup {"success: Details extracted"}
                 ELSE {},
                 <<>>,
                 Returned(cacheD, OrderByName(dbDoctors), rdD),
                 Returned(cacheB, OrderByDateDesc(dbBills), rdB),
                 NoSubmission, extracted_data, form_data)
    /\ UNCHANGED <<dbDoctors, dbBills, loginVars, reportVars>>

\* "Clear Form" (lines 236-238): defaults, then st.rerun()
ClearForm(rdD, rdB) ==
    /\ form_data' = FormDefaults
    /\ cacheD' = CachedCall(cacheD, OrderByName(dbDoctors), rdD)
    /\ cacheB' = CachedCall(cacheB, OrderByDateDesc(dbBills), rdB)
    /\ ui' = Out("clear", {}, <<>>,
                 Returned(cacheD, OrderByName(dbDoctors), rdD),
                 Returned(cacheB, OrderByDateDesc(dbBills), rdB),
                 NoSubmission, EmptyDict, form_data)
    /\ UNCHANGED <<dbDoctors, dbBills, loginVars, reportVars>>

\* a validation that rejects only when both required fields are missing
MissingBoth(vendor_name, bill_date) == vendor_name = "" /\ bill_date = NoDate

\* line 241: not vendor_name or not bill_date
MissingRequired(vendor_name, bill_date) == vendor_name = "" \/ bill_date = NoDate

\* a save handler that resets the form after the try block, whether or not
\* the insert raised
FormAfterSaveAlwaysReset(fd, valid, ok) == IF valid THEN FormDefaults ELSE fd

\* lines 251-258: form_data after a save; the reset is inside the try,
\* after the insert
FormAfterSave(fd, valid, ok) == IF valid /\ ok THEN FormDefaults ELSE fd

\* "Save Bill" (lines 240-258), then the rest of the run (line 266).
\* The values submitted are the widgets' values, which the user is free to
\* set; the doctor is one of the select box options.
SaveBill(vendor_name, bill_no, bill_date, bill_amount, selected_doctor, rdD, failW, rdB) ==
    LET doctors   == Returned(cacheD, OrderByName(dbDoctors), rdD)
        eD1       == CachedCall(cacheD, OrderByName(dbDoctors), rdD)
        valid     == ~MissingRequired(vendor_name, bill_date)
        ok        == valid /\ ~failW
        bill_data == BillData(vendor_name, bill_no, bill_date, bill_amount,
                              selected_doctor)
        dbB2      == IF ok
                     THEN Insert(dbBills,
                                 BillRow(FreshId(dbBills), bill_data.vendor_name,
                                         bill_data.bill_no, bill_data.bill_date,
                                         bill_data.bill_amount, bill_data.doctor_name))
                     ELSE dbBills
        eD2       == IF ok THEN Cleared(eD1) ELSE eD1
        eB2       == IF ok THEN Cleared(cacheB) ELSE cacheB
    IN  /\ failW => valid               \* no insert is made otherwise
        /\ ok => Len(dbBills) < MaxBills
        /\ rdB \in Reads(eB2)
        /\ selected_doctor \in {""} \cup Names(doctors)
        /\ dbBills' = dbB2
        /\ form_data' = FormAfterSave(form_data, valid, ok)
        /\ cacheD' = eD2
        /\ cacheB' = CachedCall(eB2, OrderByDateDesc(dbB2), rdB)
        /\ ui' = Out("save",
                     IF ~valid THEN {"warning: Vendor Name and Bill Date are required"}
                     ELSE IF ok THEN {"success: Bill saved"}
                     ELSE {"error: Failed to save bill"},
                     IF valid
                     THEN <<Call("bills", "insert", bill_data, "", 0, ok)>>
                     ELSE <<>>,
                     doctors,
                     Returned(eB2, OrderByDateDesc(dbB2), rdB),
                     [vendor_name |-> vendor_name, bill_no |-> bill_no,
                      bill_date |-> bill_date, bill_amount |-> bill_amount,
                      doctor_name |-> selected_doctor],
                     EmptyDict, form_data)
        /\ UNCHANGED <<dbDoctors, loginVars, reportVars>>

\* "Delete Selected Bill" (lines 316-332).  The bill was selected in the
\* select box of the previous run and is an option of this run, so this
\* run's fetch_bills returned it.
\* On success: cache cleared, st.rerun(), and the new run reads both lists.
DeleteBill(bill, rdD, rdB1, failW, rdD2, rdB) ==
    LET eD1   == CachedCall(cacheD, OrderByName(dbDoctors), rdD)
        rows  == Returned(cacheB, OrderByDateDesc(dbBills), rdB1)
        eB1   == CachedCall(cacheB, OrderByDateDesc(dbBills), rdB1)
        ok    == ~failW
        dbB2  == IF ok THEN Delete(dbBills, bill.id) ELSE dbBills
        eD2   == IF ok THEN Cleared(eD1) ELSE eD1
        eB2   == IF ok THEN Cleared(eB1) ELSE eB1
    IN  /\ IF ok THEN rdD2 \in Reads(eD2) /\ rdB \in Reads(eB2)
                 ELSE rdD2 = "cached" /\ rdB = "cached"         \* no second run
        /\ bill \in Range(ui.bills)
        /\ bill \in Range(rows)
        /\ dbBills' = dbB2
        /\ cacheD' = CachedCall(eD2, OrderByName(dbDoctors), rdD2)
        /\ cacheB' = CachedCall(eB2, OrderByDateDesc(dbB2), rdB)
        /\ ui' = Out("delete_bill",
                     IF ok THEN {"success: Bill deleted."}
                     ELSE {"error: Failed to delete bill"},
                     <<Call("bills", "delete", NoData, "", bill.id, ok)>>,
                     Returned(eD2, OrderByName(dbDoctors), rdD2),
                     Returned(eB2, OrderByDateDesc(dbB2), rdB),
                     NoSubmission, EmptyDict, form_data)
        /\ UNCHANGED <<dbDoctors, form_data, loginVars, reportVars>>

----------------------------------------------------------------------------
(* Specifications                                                          *)

ReadKinds == {"cached", "fetched", "raised"}

\* the extraction result and the submissions the bill manager page is
\* driven with
ScanSample ==
    {[vendorName |-> PyStr("Acme Clinic"), billAmount |-> PyFloat(4250),
      billDate |-> PyStr(IsoStr(<<2024, 3, 1>>))]}
SaveDates == {D1, D2}
SaveAmounts == {4250}

\* the first read of an event's run, taken as the previous run left the
\* entry: a memoized entry is live, a missing one is fetched.  An expiry or
\* a raising query at that read leaves the state that a plain run with that
\* read, followed by the event, leaves.
Live(entry) == IF entry.hit THEN {"cached"} ELSE {"fetched"}

\* the bill manager page
AppNext ==
    \/ \E rdD \in Reads(cacheD), rdB \in Reads(cacheB) : Render(rdD, rdB)
    \/ \E name \in DoctorNames \cup {""}, rdD \in Live(cacheD),
          failW \in BOOLEAN, rdB \in ReadKinds :
           AddDoctor(name, rdD, failW, rdB)
    \/ \E doctor \in Range(ui.doctors), rdD \in Live(cacheD),
          failW \in BOOLEAN, rdD2, rdB \in ReadKinds :
           DeleteDoctor(doctor, rdD, failW, rdD2, rdB)
    \/ \E d \in ScanSample, rdD \in Live(cacheD), rdB \in Reads(cacheB) :
           Scan(d, rdD, rdB)
    \/ \E rdD \in Live(cacheD), rdB \in Reads(cacheB) : ClearForm(rdD, rdB)
    \/ \E vendor_name \in {"", Vendor}, bill_date \in SaveDates \cup {NoDate},
          bill_amount \in SaveAmounts, doctor \in DoctorNames \cup {""},
          rdD \in Live(cacheD), failW \in BOOLEAN, rdB \in ReadKinds :
           SaveBill(vendor_name, BillNo, bill_date, bill_amount, doctor,
                    rdD, failW, rdB)
    \/ \E bill \in Range(ui.bills), rdD \in Live(cacheD), rdB1 \in Live(cacheB),
          failW \in BOOLEAN, rdD2, rdB \in ReadKinds :
           DeleteBill(bill, rdD, rdB1, failW, rdD2, rdB)

\* the bill manager page driven with scans and clears only, over every
\* extraction result
ScanNext ==
    \/ \E rdD \in Live(cacheD), rdB \in Live(cacheB) : Render(rdD, rdB)
    \/ \E rdD \in Live(cacheD), rdB \in Live(cacheB) : ScanFails(rdD, rdB)
    \/ \E d \in Extractions, rdD \in Live(cacheD), rdB \in Live(cacheB) :
           Scan(d, rdD, rdB)
    \/ \E rdD \in Live(cacheD), rdB \in Live(cacheB) : ClearForm(rdD, rdB)

AppInitAll ==
    /\ LoginInit
    /\ AppInit
    /\ bills = <<>> /\ start_date = Today /\ end_date = Today /\ report = NoReport

Spec == AppInitAll /\ [][AppNext]_vars

SpecScan == AppInitAll /\ [][ScanNext]_vars

\* the filter and export block over every list fetch_bills can return
ReportNext ==
    \/ \E s, e \in DateSet : SetRange(s, e)
    \/ ClickGenerate

ReportInitAll == LoginInit /\ AppInit /\ ReportInit

SpecReport == ReportInitAll /\ [][ReportNext]_vars

\* the login page
LoginNext ==
    \/ \E username \in Usernames, password \in Passwords : LoginSubmit(username, password)
    \/ Logout

SpecLogin == AppInitAll /\ [][LoginNext]_vars

----------------------------------------------------------------------------
(* Properties                                                              *)

\* s is the ten-character text YYYY-MM-DD of the date d
IsIsoOf(s, d) ==
    /\ Len(s) = 10
    /\ s[5] = 45 /\ s[8] = 45
    /\ \A i \in {1, 2, 3, 4, 6, 7, 9, 10} : s[i] \in 48..57
    /\ ToNum(SubSeq(s, 1, 4)) = d[1]
    /\ ToNum(SubSeq(s, 6, 7)) = d[2]
    /\ ToNum(SubSeq(s, 9, 10)) = d[3]

\* the last action was a Save Bill submission that passed / failed validation
SavedValid ==
    ui.event = "save" /\ ui.submitted.vendor_name # "" /\ ui.submitted.bill_date # NoDate
SavedInvalid ==
    ui.event = "save" /\ (ui.submitted.vendor_name = "" \/ ui.submitted.bill_date = NoDate)

\* exactly one insert on bills was issued, carrying the submitted values
OneInsertOfSubmitted ==
    /\ Len(ui.calls) = 1
    /\ ui.calls[1].table = "bills" /\ ui.calls[1].op = "insert"
    /\ ui.calls[1].data.vendor_name = ui.submitted.vendor_name
    /\ ui.calls[1].data.bill_no = ui.submitted.bill_no
    /\ IsIsoOf(ui.calls[1].data.bill_date, ui.submitted.bill_date)
    /\ ui.calls[1].data.bill_amount = ui.submitted.bill_amount
    /\ ui.calls[1].data.doctor_name = ui.submitted.doctor_name

\* C1 as stated: every valid Save Bill submission issues exactly one insert
\* on bills carrying the submitted values (bill_date as the ISO text), and
\* afterwards form_data equals the defaults.
C1_Original ==
    SavedValid => OneInsertOfSubmitted /\ form_data = FormDefaults

\* C1 as amended: every valid Save Bill submission issues exactly one insert
\* on bills carrying the submitted values (bill_date as the ISO text); if
\* the insert succeeds the table holds that bill and form_data equals the
\* defaults; if the insert raises, form_data is what it was.
C1_SaveInsertsOnceResetsOnSuccess ==
    SavedValid =>
        /\ OneInsertOfSubmitted
        /\ IF ui.calls[1].ok
           THEN /\ form_data = FormDefaults
                /\ \E i \in 1..Len(dbBills) :
                       /\ dbBills[i].vendor_name = ui.submitted.vendor_name
                       /\ dbBills[i].bill_no = ui.submitted.bill_no
                       /\ IsIsoOf(dbBills[i].bill_date, ui.submitted.bill_date)
                       /\ dbBills[i].bill_amount = ui.submitted.bill_amount
                       /\ dbBills[i].doctor_name = ui.submitted.doctor_name
           ELSE form_data = ui.form_before

\* a valid save of a populated form succeeded and the form is back to defaults
C1_Witness ==
    /\ SavedValid
    /\ Len(ui.calls) = 1 /\ ui.calls[1].ok
    /\ ui.form_before # FormDefaults
    /\ form_data = FormDefaults
    /\ Len(dbBills) = 1

\* C2: a Save Bill submission with an empty vendor_name or no bill_date
\* attempts no insert, leaves the memoized reads in place (both lists the
\* run read are still memoized), warns, and leaves form_data as it was.
C2_InvalidSaveWritesNothing ==
    SavedInvalid =>
        /\ ui.calls = <<>>
        /\ cacheD.hit /\ cacheB.hit
        /\ form_data = ui.form_before
        /\ ui.msgs = {"warning: Vendor Name and Bill Date are required"}

\* a populated form was submitted with an empty vendor and a date
C2_Witness ==
    /\ SavedInvalid
    /\ ui.submitted.vendor_name = "" /\ ui.submitted.bill_date # NoDate
    /\ ui.form_before # FormDefaults
    /\ form_data = ui.form_before

\* C3 as stated: when the insert of a valid save raises, form_data is still
\* reset to the defaults.
C3_Original ==
    (SavedValid /\ Len(ui.calls) = 1 /\ ~ui.calls[1].ok) => form_data = FormDefaults

\* C3 as amended: when the insert of a valid save raises, an error is
\* surfaced and form_data is left as it was; the form is reset only by an
\* insert that succeeded.
C3_FailedInsertKeepsForm ==
    (SavedValid /\ Len(ui.calls) = 1 /\ ~ui.calls[1].ok) =>
        /\ form_data = ui.form_before
        /\ ui.msgs = {"error: Failed to save bill"}

\* the insert of a valid save of a populated form raised, and the form is kept
C3_Witness ==
    /\ SavedValid
    /\ Len(ui.calls) = 1 /\ ~ui.calls[1].ok
    /\ ui.form_before # FormDefaults
    /\ form_data = ui.form_before

\* the last action sent a write that succeeded
WriteSucceeded == Len(ui.calls) = 1 /\ ui.calls[1].ok

C5_FailedReadNotMemoized ==
    /\ ~cacheD.failed
    /\ ~cacheB.failed
    /\ (Len(ui.calls) = 1 /\ ~ui.calls[1].ok) => cacheD.hit /\ cacheB.hit

\* the last action was a scan whose extraction returned a non-empty dict
Scanned == ui.event = "scan" /\ ui.extracted # EmptyDict

\* C6 as stated: a successful extraction changes only vendor_name,
\* bill_amount and bill_date, each only if the AI returned a value for it:
\* a field whose key is absent or null keeps its prior value.
C6_Original ==
    Scanned =>
        /\ form_data.bill_no = ui.form_before.bill_no
        /\ form_data.doctor_name = ui.form_before.doctor_name
        /\ ui.extracted.vendorName \in {Absent, PyNaN} =>
               form_data.vendor_name = ui.form_before.vendor_name
        /\ ui.extracted.billAmount \in {Absent, PyNaN} =>
               form_data.bill_amount = ui.form_before.bill_amount
        /\ ui.extracted.billDate \in {Absent, PyNaN} =>
               form_data.bill_date = ui.form_before.bill_date

\* C6 as amended: a successful extraction never changes bill_no or
\* doctor_name; vendor_name and bill_amount are overwritten every time, by
\* the returned value or, when the key is absent, by '' and 0.0; bill_date
\* alone keeps its prior value when billDate is absent or null.
C6_ScanOverwritesVendorAndAmount ==
    Scanned =>
        /\ form_data.bill_no = ui.form_before.bill_no
        /\ form_data.doctor_name = ui.form_before.doctor_name
        /\ ui.extracted.vendorName = Absent => form_data.vendor_name = PyStr("")
        /\ ui.extracted.vendorName[1] = "str" =>
               form_data.vendor_name = ui.extracted.vendorName
        /\ ui.extracted.billAmount = Absent => form_data.bill_amount = PyFloat(0)
        /\ ui.extracted.billAmount[1] \in {"int", "float"} =>
               form_data.bill_amount = PyFloat(ui.extracted.billAmount[2])
        /\ ui.extracted.billDate \in {Absent, PyNaN} =>
               form_data.bill_date = ui.form_before.bill_date

\* a scan that returned no vendorName replaced a vendor name by ''
C6_Witness ==
    /\ Scanned
    /\ ui.extracted.vendorName = Absent
    /\ ui.form_before.vendor_name = PyStr("Acme Clinic")
    /\ form_data.vendor_name = PyStr("")

DateOfIso(s) ==
    <<ToNum(SubSeq(s, 1, 4)), ToNum(SubSeq(s, 6, 7)), ToNum(SubSeq(s, 9, 10))>>

\* the date a is on or before the date b
OnOrBefore(a, b) ==
    \/ a[1] < b[1]
    \/ a[1] = b[1] /\ a[2] < b[2]
    \/ a[1] = b[1] /\ a[2] = b[2] /\ a[3] <= b[3]

\* the bills of the list dated within [start_date, end_date], in list order
BillsWithinRange ==
    SelectSeq(bills, LAMBDA b : /\ OnOrBefore(start_date, DateOfIso(b.bill_date))
                                /\ OnOrBefore(DateOfIso(b.bill_date), end_date))

\* C8: over a non-empty bill list, a run with start_date <= end_date yields
\* a filtered set, and it is exactly the bills dated within the range, both
\* ends included; a run with start_date > end_date issues the error, yields
\* no filtered set, draws no Generate button and generates no PDF.  (Over an
\* empty list the block is skipped: nothing is selected or generated.)
C8_FilterIsInclusiveRange ==
    /\ bills = <<>> => report.filtered_df = <<>> /\ ~report.generated
    /\ bills # <<>> =>
        IF OnOrBefore(start_date, end_date)
        THEN /\ report.has_filtered
             /\ [i \in 1..Len(report.filtered_df) |-> report.filtered_df[i].row]
                    = BillsWithinRange
        ELSE /\ "error: Start date must be before end date" \in report.msgs
             /\ ~report.has_filtered
             /\ report.filtered_df = <<>>
             /\ ~report.has_button
             /\ ~report.generated
             /\ report.pdf_data = NoPdf

\* a range with start_date < end_date selected some but not all of the bills,
\* one of them dated on the first day of the range
C8_Witness ==
    /\ report.event = "range"
    /\ report.has_filtered
    /\ start_date # end_date
    /\ Len(report.filtered_df) = 1
    /\ Len(bills) = 2
    /\ DateOfIso(report.filtered_df[1].row.bill_date) = start_date

\* C9: generate_pdf over a non-empty filtered set runs to completion and
\* returns a document with the header row and one data row per bill, in
\* order, the S.No of the i-th row being i.
C9_PdfHasOneRowPerBill ==
    report.generated =>
        /\ report.pdf_data.raised = ""
        /\ report.pdf_data.header = HeaderRow
        /\ Len(report.pdf_data.rows) = Len(report.filtered_df)
        /\ \A i \in 1..Len(report.filtered_df) :
               /\ report.pdf_data.rows[i].s_no = i
               /\ report.pdf_data.rows[i].vendor = report.filtered_df[i].row.vendor_name
               /\ report.pdf_data.rows[i].bill_no = report.filtered_df[i].row.bill_no
               /\ report.pdf_data.rows[i].bill_date = report.filtered_df[i].row.bill_date
               /\ report.pdf_data.rows[i].doctor = report.filtered_df[i].row.doctor_name

\* C10: logged_in is true only after a submission of exactly AutoB4 /
\* P@ssw0rd; a submission of anything else issues the error and leaves the
\* user logged out; Logout sets logged_in to false.
C10_LoginGate ==
    /\ logged_in =>
           /\ login_out.event = "login"
           /\ login_out.username = "AutoB4"
           /\ login_out.password = "P@ssw0rd"
    /\ (login_out.event = "login"
            /\ ~(login_out.username = "AutoB4" /\ login_out.password = "P@ssw0rd")) =>
           /\ ~logged_in
           /\ login_out.msgs = {"error: Incorrect username or password"}
    /\ (login_out.event = "login"
            /\ login_out.username = "AutoB4" /\ login_out.password = "P@ssw0rd") =>
           logged_in
    /\ login_out.event = "logout" => ~logged_in

\* the right username with a wrong password was refused
C10_Witness ==
    /\ login_out.event = "login"
    /\ login_out.username = "AutoB4"
    /\ login_out.password # "P@ssw0rd"
    /\ ~logged_in
    /\ "error: Incorrect username or password" \in login_out.msgs

============================================================================
